---- MODULE Spec2Model ----
(***************************************************************************)
(* Alert analysis core of sre-toolkit's alert-analyzer:                    *)
(*   collector.Alert / AlertHistory   (internal/alert-analyzer/collector)  *)
(*   analyzer.FrequencyAnalyzer       (analyzer/frequency.go)              *)
(*   analyzer.FlappingAnalyzer        (analyzer/flapping.go)               *)
(*   storage.MemoryStorage            (storage/memory.go)                  *)
(*   collector.PrometheusCollector    (collector, parseAlerts)             *)
(*   collector.AlertmanagerCollector  (collector, CollectCurrentAlerts)    *)
(* and the load generator of chaos-load:                                   *)
(*   http.Pool, stats.Collector       (internal/chaos-load)                *)
(*                                                                         *)
(* Time is counted in ticks of 30 minutes (time.Hour = 2 ticks); a         *)
(* time.Time is the number of ticks since the zero time.Time.  A           *)
(* time.Duration is a signed 64-bit count of nanoseconds: in ticks it      *)
(* ranges over -(MaxDuration + 1) .. MaxDuration, time.Time.Sub saturates  *)
(* at the two ends and += wraps around.  A nil *time.Time is NilTime.      *)
(* A float64 score is kept exactly, as the fraction num/den.               *)
(***************************************************************************)
EXTENDS Integers, Sequences, FiniteSets, TLC

\* ------------------------------------------------------------------ bounds
\* Longest episode list of a history.
MaxAlerts == 3
\* Latest timestamp of an episode or of a window edge, counted from Epoch.
MaxTime == 1
\* The tick at which the collected window starts (late 2026).
Epoch == 35500000
\* How many ticks the clock advances after the history was collected.
MaxElapsed == 1
\* Longest episode list of a history handed to the flapping analyzer.
MaxFlapAlerts == 2
\* Largest threshold handed to NewFlappingAnalyzer.
MaxThreshold == 2
\* Goroutines calling into one MemoryStorage at the same time.
MaxGoroutines == 3
\* Distinct non-nil *AlertHistory values handed to MemoryStorage.Store.
MaxStored == 2
\* Largest PoolConfig.Concurrency.
MaxConcurrency == 2
\* Most series in a range-query result, and most samples in a series.
MaxSeries == 2
MaxSamples == 3
\* Most entries in an Alertmanager listing.
MaxListed == 2
\* Largest PoolConfig.Requests; in infinite mode, the tokens the feeder
\* hands out before the Duration timeout ends the run.
MaxRequests == 3

\* ------------------------------------------------------- program constants
Hour == 2
DefaultFlappingThreshold == 3
ZeroTime == 0
NilTime == -1
\* The largest time.Duration, 1<<63 - 1 nanoseconds, in whole ticks.
MaxDuration == 5124095
\* Milliseconds in a second: a sample's model.Time counts milliseconds,
\* the time.Time parseAlerts makes of it whole seconds.
Millis == 1000

AlertNames == {"AlertA", "AlertB"}
Times == Epoch .. Epoch + MaxTime

VARIABLES
    history,    \* the *AlertHistory both analyzers were constructed on
    given,      \* the threshold NewFlappingAnalyzer was called with
    threshold,  \* FlappingAnalyzer.threshold
    now,        \* the wall clock read by time.Since
    call,       \* the last call made: [op, at, n, minFirings, maxDuration]
    results,    \* the list that call returned (<<>> when it returns none)
    stats,      \* the summary that call returned (a zero summary otherwise)
    panicked,   \* TRUE when that call ended in a run-time panic
    goroutines, \* the goroutines that call into the MemoryStorage
    slot,       \* MemoryStorage.history: NilPtr or a stored pointer
    mu,         \* MemoryStorage.mu: [w, readers]
    pc,         \* each goroutine's position in the method it is running
    arg,        \* each goroutine's Store argument
    local,      \* each goroutine's value read under the lock
    sret,       \* the last return of a storage method: [g, op, history, err, has]
    passed,     \* the pointers passed to Store so far
    latest,     \* the pointer of the last Store that returned nil, NilPtr
                \* after a Clear returned or when there was none
    config,     \* Pool.config: [Requests, Concurrency]
    ctx,        \* the context of Pool.Run: "live", "deadline" or "canceled"
    requestsCh, \* the channel of Pool.Run: [len, closed]
    feeder,     \* the feeder goroutine: [at, i]
    workers,    \* each worker goroutine: [at, err]
    issued,     \* the requests the workers have made
    collected,  \* Collector.results: [total, errors]
    run,        \* Pool.Run itself: [at, err]
    queryResult,\* the model.Value handed to parseAlerts: [type, matrix]
    parsed,     \* what parseAlerts returned: [at, alerts, err]
    seenKeys,   \* the keys createAlertKey returned during that call
    listing,    \* what client.ListAlerts answers: [alerts, err]
    snapshot    \* what CollectCurrentAlerts returned: [at, history, err]

analyzerVars ==
    <<history, given, threshold, now, call, results, stats, panicked>>
storageVars ==
    <<goroutines, slot, mu, pc, arg, local, sret, passed, latest>>
poolVars ==
    <<config, ctx, requestsCh, feeder, workers, issued, collected, run>>
\* What the analyzers' methods, the storage's and the pool's cannot touch.
collectorVars == <<queryResult, parsed, seenKeys, listing, snapshot>>
outsideAnalyzers == <<storageVars, poolVars, collectorVars>>
outsideStorage == <<analyzerVars, poolVars, collectorVars>>
outsidePool == <<analyzerVars, storageVars, collectorVars>>
outsideCollector == <<analyzerVars, storageVars, poolVars>>

vars == <<analyzerVars, storageVars, poolVars, collectorVars>>

\* ------------------------------------------------------------ collector
\* Alert.GetAlertName
GetAlertName(a) == a.Name

\* Alert.GetSeverity: the severity label, "unknown" when the label is absent.
\* Labels is the alert's label map restricted to the key "severity":
\* a sequence holding the value, or the empty sequence.
GetSeverity(a) ==
    IF Len(a.Labels) > 0 THEN a.Labels[1] ELSE "unknown"

\* A time.Duration sum or difference brought back into 64 bits.
WrapDuration(d) ==
    ((d + MaxDuration + 1) % (2 * (MaxDuration + 1))) - (MaxDuration + 1)

\* time.Time.Sub: the difference, or the largest (smallest) Duration when
\* the difference does not fit.
SubTime(t, u) ==
    IF t - u > MaxDuration THEN MaxDuration
    ELSE IF t - u < -(MaxDuration + 1) THEN -(MaxDuration + 1)
    ELSE t - u

\* Go's integer division of a Duration by a positive count: it truncates
\* toward zero.
Quot(d, n) == IF d >= 0 THEN d \div n ELSE -((-d) \div n)

\* Alert.Duration at clock value t (time.Since(x) is Now().Sub(x)).
Duration(a, t) ==
    IF a.ResolvedAt # NilTime
    THEN SubTime(a.ResolvedAt, a.FiredAt)
    ELSE SubTime(t, a.FiredAt)

\* Alert.IsResolved
IsResolved(a) == a.ResolvedAt # NilTime

\* The keys of GroupAlertsByName(alerts).
GroupKeys(alerts) == { GetAlertName(alerts[i]) : i \in DOMAIN alerts }

\* GroupAlertsByName assigning instead of appending: each group keeps only
\* the last alert of its name.
GroupAlertsByNameOverwrite(alerts) ==
    [ name \in GroupKeys(alerts) |->
        LET g == SelectSeq(alerts, LAMBDA a : GetAlertName(a) = name)
        IN  <<g[Len(g)]>> ]

\* GroupAlertsByName: name -> the alerts of that name, in input order.
GroupAlertsByName(alerts) ==
    [ name \in GroupKeys(alerts) |->
        SelectSeq(alerts, LAMBDA a : GetAlertName(a) = name) ]

\* AlertHistory.CountAlerts
CountAlerts(h) == Len(h.Alerts)

\* The orders in which a Go `range` over a map with key set S may visit it:
\* the language leaves the order unspecified, any permutation can occur.
RangeOrders(S) ==
    { o \in [1 .. Cardinality(S) -> S] :
        \A i, j \in 1 .. Cardinality(S) : i # j => o[i] # o[j] }

\* ------------------------------------------------------ small helpers
Min(a, b) == IF a <= b THEN a ELSE b
Front(s) == SubSeq(s, 1, Len(s) - 1)
Last(s) == s[Len(s)]

RECURSIVE SumSeq(_)
SumSeq(s) == IF s = <<>> THEN 0 ELSE SumSeq(Front(s)) + Last(s)

\* A loop adding Durations up with +=, each addition in 64 bits.
RECURSIVE SumDurations(_)
SumDurations(s) ==
    IF s = <<>> THEN 0 ELSE WrapDuration(SumDurations(Front(s)) + Last(s))

\* AnalyzeTopN without its clamp.
ClampNMissing(n, len) == n

\* The clamp of both AnalyzeTopN: n, or len(allResults) when n exceeds it.
ClampN(n, len) == IF n > len THEN len ELSE n

\* Go's s[:n]: a run-time panic unless 0 <= n <= len(s) (cap = len here).
SliceOk(s, n) == 0 <= n /\ n <= Len(s)
SliceTo(s, n) == SubSeq(s, 1, n)

\* ------------------------------------------------- frequency analyzer
\* FrequencyAnalyzer.analyzeAlertGroup: the loop over the group's alerts,
\* carried as the accumulator [cnt, total, last, sev].
RECURSIVE FreqGroupLoop(_, _)
FreqGroupLoop(alerts, t) ==
    IF alerts = <<>>
    THEN [cnt |-> 0, total |-> 0, last |-> ZeroTime, sev |-> ""]
    ELSE LET acc == FreqGroupLoop(Front(alerts), t)
             alert == Last(alerts)
         IN  [cnt   |-> acc.cnt + 1,
              total |-> WrapDuration(acc.total + Duration(alert, t)),
              last  |-> IF alert.FiredAt > acc.last THEN alert.FiredAt ELSE acc.last,
              sev   |-> IF acc.sev = "" THEN GetSeverity(alert) ELSE acc.sev]

\* FrequencyAnalyzer.analyzeAlertGroup
FreqAnalyzeAlertGroup(alertName, alerts, t) ==
    LET acc == FreqGroupLoop(alerts, t)
    IN  [AlertName   |-> alertName,
         FiringCount |-> acc.cnt,
         TotalTime   |-> acc.total,
         AvgDuration |-> IF acc.cnt > 0 THEN Quot(acc.total, acc.cnt) ELSE 0,
         LastFired   |-> acc.last,
         Severity    |-> acc.sev]

\* The less function of both sort.Slice calls in frequency.go.
FreqLess(x, y) == x.FiringCount > y.FiringCount

\* sort.Slice on a slice of at most 12 elements is an insertion sort: each
\* element moves left while it is less than its left neighbour.
RECURSIVE FreqInsert(_, _)
FreqInsert(sorted, x) ==
    IF sorted = <<>> THEN <<x>>
    ELSE IF FreqLess(x, Last(sorted))
         THEN Append(FreqInsert(Front(sorted), x), Last(sorted))
         ELSE Append(sorted, x)

RECURSIVE FreqSort(_)
FreqSort(s) ==
    IF s = <<>> THEN <<>> ELSE FreqInsert(FreqSort(Front(s)), Last(s))

\* The range loop of FrequencyAnalyzer.Analyze over the grouped map, visited
\* in `order`: one appended result per key.
RECURSIVE FreqRange(_, _, _)
FreqRange(grouped, order, t) ==
    IF order = <<>> THEN <<>>
    ELSE Append(FreqRange(grouped, Front(order), t),
                FreqAnalyzeAlertGroup(Last(order), grouped[Last(order)], t))

\* FrequencyAnalyzer.Analyze on a non-nil history, the map being ranged
\* over in `order`.
FreqAnalyzeIn(h, order, t) ==
    FreqSort(FreqRange(GroupAlertsByName(h.Alerts), order, t))

\* The filter of GetNoisyAlerts with an exclusive duration bound.
NoisyFilterExclusive(all, minFirings, maxDuration) ==
    SelectSeq(all, LAMBDA r :
        r.FiringCount >= minFirings /\ r.AvgDuration < maxDuration)

\* The filter loop of GetNoisyAlerts.
NoisyFilter(all, minFirings, maxDuration) ==
    SelectSeq(all, LAMBDA r :
        r.FiringCount >= minFirings /\ r.AvgDuration <= maxDuration)

\* FrequencyAnalyzer.GetNoisyAlerts, given the list Analyze returned.
NoisyOf(all, minFirings, maxDuration) ==
    FreqSort(NoisyFilter(all, minFirings, maxDuration))

ZeroSummaryStats ==
    [TotalAlerts |-> 0, UniqueAlerts |-> 0, TotalFirings |-> 0,
     AvgDuration |-> 0, TotalFiringTime |-> 0,
     MostFrequent |-> "", LongestAvgDuration |-> ""]

\* The "longest average duration" loop of GetSummaryStats: the first result
\* whose AvgDuration is not exceeded by an earlier one's.
RECURSIVE LongestLoop(_)
LongestLoop(rs) ==
    IF Len(rs) = 1 THEN rs[1]
    ELSE LET best == LongestLoop(Front(rs))
         IN  IF Last(rs).AvgDuration > best.AvgDuration THEN Last(rs) ELSE best

\* FrequencyAnalyzer.GetSummaryStats, given the list Analyze returned.
SummaryStatsOf(h, rs) ==
    IF Len(rs) = 0 THEN ZeroSummaryStats
    ELSE LET totalFirings == SumSeq([ i \in DOMAIN rs |-> rs[i].FiringCount ])
             totalFiringTime ==
                 SumDurations([ i \in DOMAIN rs |-> rs[i].TotalTime ])
         IN  [TotalAlerts        |-> CountAlerts(h),
              UniqueAlerts       |-> Len(rs),
              TotalFirings       |-> totalFirings,
              AvgDuration        |-> IF totalFirings > 0
                                     THEN Quot(totalFiringTime, totalFirings)
                                     ELSE 0,
              TotalFiringTime    |-> totalFiringTime,
              MostFrequent       |-> rs[1].AlertName,
              LongestAvgDuration |-> LongestLoop(rs).AlertName]

\* -------------------------------------------------- flapping analyzer
\* NewFlappingAnalyzer keeping whatever threshold it is given.
NewFlappingAnalyzerAsGiven(thr) == thr

\* NewFlappingAnalyzer: the threshold the analyzer keeps.
NewFlappingAnalyzer(thr) ==
    IF thr <= 0 THEN DefaultFlappingThreshold ELSE thr

\* The less function of the sort.Slice in FlappingAnalyzer.analyzeAlertGroup.
FiredBefore(x, y) == x.FiredAt < y.FiredAt

RECURSIVE AlertInsert(_, _)
AlertInsert(sorted, x) ==
    IF sorted = <<>> THEN <<x>>
    ELSE IF FiredBefore(x, Last(sorted))
         THEN Append(AlertInsert(Front(sorted), x), Last(sorted))
         ELSE Append(sorted, x)

\* sortedAlerts: a copy of the group, insertion-sorted by FiredAt.
RECURSIVE SortByFiredAt(_)
SortByFiredAt(s) ==
    IF s = <<>> THEN <<>> ELSE AlertInsert(SortByFiredAt(Front(s)), Last(s))

\* A fire transition for every episode in state firing, whatever the
\* current state.
StartsFiringAlways(currentState, alert) == alert.State = "firing"

\* One iteration of the loop of detectStateTransitions "alert started
\* firing": the condition under which a transition to firing is appended.
StartsFiring(currentState, alert) ==
    currentState # "firing" /\ alert.State = "firing"

\* The loop of detectStateTransitions, carried as [trans, cur].
RECURSIVE DetectLoop(_)
DetectLoop(sortedAlerts) ==
    IF sortedAlerts = <<>>
    THEN [trans |-> <<>>, cur |-> "inactive"]
    ELSE LET acc == DetectLoop(Front(sortedAlerts))
             alert == Last(sortedAlerts)
             fired == StartsFiring(acc.cur, alert)
             t1 == IF fired
                   THEN Append(acc.trans,
                            [AlertKey |-> alert.Name, Timestamp |-> alert.FiredAt,
                             FromState |-> acc.cur, ToState |-> "firing"])
                   ELSE acc.trans
             c1 == IF fired THEN "firing" ELSE acc.cur
             resolved == alert.ResolvedAt # NilTime /\ c1 = "firing"
         IN  [trans |-> IF resolved
                        THEN Append(t1,
                            [AlertKey |-> alert.Name, Timestamp |-> alert.ResolvedAt,
                             FromState |-> "firing", ToState |-> "resolved"])
                        ELSE t1,
              cur   |-> IF resolved THEN "resolved" ELSE c1]

\* FlappingAnalyzer.detectStateTransitions
DetectStateTransitions(sortedAlerts) == DetectLoop(sortedAlerts).trans

\* The gaps between consecutive transitions.
Intervals(transitions) ==
    [ i \in 1 .. Len(transitions) - 1 |->
        SubTime(transitions[i + 1].Timestamp, transitions[i].Timestamp) ]

RECURSIVE MinSeq(_)
MinSeq(s) == IF Len(s) = 1 THEN s[1] ELSE Min(MinSeq(Front(s)), Last(s))

\* FlappingAnalyzer.calculateDurations: [avg, shortest].  The shortest gap
\* starts from the largest Duration, which no gap exceeds.
CalculateDurations(alerts, transitions, t) ==
    IF Len(transitions) < 2
    THEN [avg |-> IF Len(alerts) > 0
                  THEN Quot(SumDurations([ i \in DOMAIN alerts |->
                                              Duration(alerts[i], t) ]),
                            Len(alerts))
                  ELSE 0,
          shortest |-> 0]
    ELSE [avg |-> Quot(SumDurations(Intervals(transitions)),
                       Len(transitions) - 1),
          shortest |-> Min(MaxDuration, MinSeq(Intervals(transitions)))]

\* A float64 quotient kept exactly: num / den with den > 0.
ScoreGE(score, thr) == score.num >= thr * score.den
ScoreGT(x, y) == x.num * y.den > y.num * x.den

\* transitions / analysisPeriod.Hours(), one hour standing in for a
\* non-positive period.
FlappingScoreOf(count, analysisPeriod) ==
    IF analysisPeriod <= 0
    THEN [num |-> count, den |-> 1]
    ELSE [num |-> count * Hour, den |-> analysisPeriod]

\* The classification with a strict comparison.
IsFlappingOfStrict(score, thr) == score.num > thr * score.den

\* The classification in analyzeAlertGroup.
IsFlappingOf(score, thr) == ScoreGE(score, thr)

\* FlappingAnalyzer.analyzeAlertGroup
FlapAnalyzeAlertGroup(alertName, alerts, analysisPeriod, thr, t) ==
    IF Len(alerts) = 0
    THEN [AlertName |-> alertName, TransitionCount |-> 0,
          FlappingScore |-> [num |-> 0, den |-> 1],
          AvgStateDuration |-> 0, ShortestDuration |-> 0,
          IsFlapping |-> FALSE, Severity |-> ""]
    ELSE LET sortedAlerts == SortByFiredAt(alerts)
             transitions == DetectStateTransitions(sortedAlerts)
             score == FlappingScoreOf(Len(transitions), analysisPeriod)
             d == CalculateDurations(sortedAlerts, transitions, t)
         IN  [AlertName        |-> alertName,
              TransitionCount  |-> Len(transitions),
              FlappingScore    |-> score,
              AvgStateDuration |-> d.avg,
              ShortestDuration |-> d.shortest,
              IsFlapping       |-> IsFlappingOf(score, thr),
              Severity         |-> GetSeverity(sortedAlerts[1])]

\* The less function of the sort.Slice in FlappingAnalyzer.Analyze.
FlapLess(x, y) == ScoreGT(x.FlappingScore, y.FlappingScore)

RECURSIVE FlapInsert(_, _)
FlapInsert(sorted, x) ==
    IF sorted = <<>> THEN <<x>>
    ELSE IF FlapLess(x, Last(sorted))
         THEN Append(FlapInsert(Front(sorted), x), Last(sorted))
         ELSE Append(sorted, x)

RECURSIVE FlapSort(_)
FlapSort(s) ==
    IF s = <<>> THEN <<>> ELSE FlapInsert(FlapSort(Front(s)), Last(s))

\* The analysis period of FlappingAnalyzer.Analyze.
AnalysisPeriod(h) ==
    IF SubTime(h.EndTime, h.StartTime) <= 0
    THEN Hour ELSE SubTime(h.EndTime, h.StartTime)

\* The range loop of FlappingAnalyzer.Analyze over the grouped map, visited
\* in `order`: one appended result per key.
RECURSIVE FlapRange(_, _, _, _, _)
FlapRange(grouped, order, analysisPeriod, thr, t) ==
    IF order = <<>> THEN <<>>
    ELSE Append(FlapRange(grouped, Front(order), analysisPeriod, thr, t),
                FlapAnalyzeAlertGroup(Last(order), grouped[Last(order)],
                                      analysisPeriod, thr, t))

\* FlappingAnalyzer.Analyze past its nil/empty check, the map being ranged
\* over in `order`.
FlapAnalyzeIn(h, thr, order, t) ==
    FlapSort(FlapRange(GroupAlertsByName(h.Alerts), order,
                       AnalysisPeriod(h), thr, t))

\* GetFlappingAlerts without its filter.
FlappingOfUnfiltered(all) == all

\* The filter loop of GetFlappingAlerts.
FlappingOf(all) == SelectSeq(all, LAMBDA r : r.IsFlapping)

ZeroScore == [num |-> 0, den |-> 1]

ZeroFlappingSummary ==
    [TotalAlerts |-> 0, FlappingAlerts |-> 0, AvgFlappingScore |-> ZeroScore,
     MaxFlappingScore |-> ZeroScore, MostFlapping |-> "", Threshold |-> 0]

\* The loop of GetSummary, carried as [total, flapping, max, most].
RECURSIVE FlapSummaryLoop(_)
FlapSummaryLoop(rs) ==
    IF rs = <<>>
    THEN [total |-> ZeroScore, flapping |-> 0, max |-> ZeroScore, most |-> ""]
    ELSE LET acc == FlapSummaryLoop(Front(rs))
             r == Last(rs)
             bigger == ScoreGT(r.FlappingScore, acc.max)
         IN  [total    |-> [num |-> acc.total.num * r.FlappingScore.den
                                      + r.FlappingScore.num * acc.total.den,
                            den |-> acc.total.den * r.FlappingScore.den],
              flapping |-> IF r.IsFlapping THEN acc.flapping + 1 ELSE acc.flapping,
              max      |-> IF bigger THEN r.FlappingScore ELSE acc.max,
              most     |-> IF bigger THEN r.AlertName ELSE acc.most]

\* FlappingAnalyzer.GetSummary, given the list Analyze returned.
FlappingSummaryOf(rs, thr) ==
    IF Len(rs) = 0
    THEN [ZeroFlappingSummary EXCEPT !.Threshold = thr]
    ELSE LET acc == FlapSummaryLoop(rs)
         IN  [TotalAlerts      |-> Len(rs),
              FlappingAlerts   |-> acc.flapping,
              AvgFlappingScore |-> [num |-> acc.total.num,
                                    den |-> acc.total.den * Len(rs)],
              MaxFlappingScore |-> acc.max,
              MostFlapping     |-> acc.most,
              Threshold        |-> thr]

\* ------------------------------------------------------------- inputs
NilHistory ==
    [isNil |-> TRUE, Alerts |-> <<>>, StartTime |-> ZeroTime,
     EndTime |-> ZeroTime, Source |-> ""]

\* The episodes of a history whose resolved episodes carry State `closed`
\* ("inactive" from PrometheusCollector.parseAlerts, "firing" from the
\* analyzer tests' makeTestAlertWithResolved); an open episode is "firing".
\* Every episode satisfies fired_at <= resolved_at.
Episodes(closed) ==
    { [Name |-> n, Labels |-> <<"warning">>,
       State |-> IF tr[2] = NilTime THEN "firing" ELSE closed,
       FiredAt |-> tr[1], ResolvedAt |-> tr[2]] :
        n \in AlertNames,
        tr \in { x \in Times \X ({NilTime} \cup Times) :
                    x[2] = NilTime \/ x[1] <= x[2] } }

AlertLists(closed, max) ==
    UNION { [1 .. k -> Episodes(closed)] : k \in 0 .. max }

HistoryOf(alerts, start, end, source) ==
    [isNil |-> FALSE, Alerts |-> alerts, StartTime |-> start,
     EndTime |-> end, Source |-> source]

\* collector.Alert{Name: n}, the episode the analyzer and collector tests
\* build: every other field has its zero value (no labels, no state,
\* FiredAt the zero time.Time, ResolvedAt nil).
BareAlert(n) ==
    [Name |-> n, Labels |-> <<>>, State |-> "",
     FiredAt |-> ZeroTime, ResolvedAt |-> NilTime]

\* &collector.AlertHistory{Alerts: alerts} over such episodes: the window
\* and the source have their zero values too.
BareHistories(max) ==
    { HistoryOf(as, ZeroTime, ZeroTime, "") :
        as \in UNION { [1 .. k -> { BareAlert(n) : n \in AlertNames }] :
                          k \in 1 .. max } }

\* Open episodes that differ in their severity label: none, an empty one,
\* "warning" or "critical".
LabelledEpisodes ==
    { [Name |-> n, Labels |-> l, State |-> "firing",
       FiredAt |-> t, ResolvedAt |-> NilTime] :
        n \in AlertNames,
        l \in {<<>>, <<"">>, <<"warning">>, <<"critical">>},
        t \in Times }

\* A call and the clock value it was made at.
NoCall == [op |-> "new", at |-> 0, n |-> 0, minFirings |-> 0, maxDuration |-> 0]
CallOf(op) == [NoCall EXCEPT !.op = op, !.at = now]

TopNs == -1 .. Cardinality(AlertNames) + 1
MinFirings == 1 .. MaxAlerts
MaxDurations == 0 .. MaxTime

\* The history with its episode list sorted in place by fired_at.
HistoryAfterSortInPlace(h) == [h EXCEPT !.Alerts = SortByFiredAt(h.Alerts)]

\* The history a call of either analyzer leaves behind.  No statement of
\* the analyzers assigns to a.history, to one of its fields or to an
\* element of a.history.Alerts: GroupAlertsByName appends copies of the
\* episodes to fresh slices, and the flapping analyzer sorts a copy of
\* each group.
HistoryAfter(h) == h

\* ------------------------------------------------------------ actions
\* FrequencyAnalyzer.Analyze: it reads a.history.Alerts without a nil check.
FrequencyAnalyzer_Analyze ==
    /\ call' = CallOf("FrequencyAnalyzer.Analyze")
    /\ IF history.isNil
       THEN panicked' = TRUE /\ results' = <<>>
       ELSE /\ panicked' = FALSE
            /\ \E order \in RangeOrders(GroupKeys(history.Alerts)) :
                   results' = FreqAnalyzeIn(history, order, now)
    /\ stats' = ZeroSummaryStats
    /\ history' = HistoryAfter(history)
    /\ UNCHANGED <<given, threshold, now>>
    /\ UNCHANGED outsideAnalyzers

\* FrequencyAnalyzer.AnalyzeTopN(n)
FrequencyAnalyzer_AnalyzeTopN ==
    \E n \in TopNs :
        /\ call' = [CallOf("FrequencyAnalyzer.AnalyzeTopN") EXCEPT !.n = n]
        /\ IF history.isNil
           THEN panicked' = TRUE /\ results' = <<>>
           ELSE \E order \in RangeOrders(GroupKeys(history.Alerts)) :
                   LET allResults == FreqAnalyzeIn(history, order, now)
                       m == ClampN(n, Len(allResults))
                   IN  IF SliceOk(allResults, m)
                       THEN panicked' = FALSE /\ results' = SliceTo(allResults, m)
                       ELSE panicked' = TRUE /\ results' = <<>>
        /\ stats' = ZeroSummaryStats
        /\ history' = HistoryAfter(history)
        /\ UNCHANGED <<given, threshold, now>>
        /\ UNCHANGED outsideAnalyzers

\* FrequencyAnalyzer.GetNoisyAlerts(minFirings, maxDuration)
GetNoisyAlerts ==
    \E minFirings \in MinFirings, maxDuration \in MaxDurations :
        /\ call' = [CallOf("FrequencyAnalyzer.GetNoisyAlerts") EXCEPT
                        !.minFirings = minFirings, !.maxDuration = maxDuration]
        /\ IF history.isNil
           THEN panicked' = TRUE /\ results' = <<>>
           ELSE /\ panicked' = FALSE
                /\ \E order \in RangeOrders(GroupKeys(history.Alerts)) :
                       results' = NoisyOf(FreqAnalyzeIn(history, order, now),
                                          minFirings, maxDuration)
        /\ stats' = ZeroSummaryStats
        /\ history' = HistoryAfter(history)
        /\ UNCHANGED <<given, threshold, now>>
        /\ UNCHANGED outsideAnalyzers

\* FrequencyAnalyzer.GetSummaryStats
GetSummaryStats ==
    /\ call' = CallOf("FrequencyAnalyzer.GetSummaryStats")
    /\ IF history.isNil
       THEN panicked' = TRUE /\ stats' = ZeroSummaryStats
       ELSE /\ panicked' = FALSE
            /\ \E order \in RangeOrders(GroupKeys(history.Alerts)) :
                   stats' = SummaryStatsOf(history,
                                           FreqAnalyzeIn(history, order, now))
    /\ results' = <<>>
    /\ history' = HistoryAfter(history)
    /\ UNCHANGED <<given, threshold, now>>
    /\ UNCHANGED outsideAnalyzers

\* FlappingAnalyzer.Analyze with its nil/empty check.
FlapAnalyzeResults(order, t) ==
    IF history.isNil \/ Len(history.Alerts) = 0
    THEN <<>>
    ELSE FlapAnalyzeIn(history, threshold, order, t)

\* The map iteration orders open to FlappingAnalyzer.Analyze.
FlapOrders ==
    IF history.isNil THEN {<<>>} ELSE RangeOrders(GroupKeys(history.Alerts))

FlappingAnalyzer_Analyze ==
    /\ call' = CallOf("FlappingAnalyzer.Analyze")
    /\ \E order \in FlapOrders : results' = FlapAnalyzeResults(order, now)
    /\ panicked' = FALSE
    /\ stats' = ZeroSummaryStats
    /\ history' = HistoryAfter(history)
    /\ UNCHANGED <<given, threshold, now>>
    /\ UNCHANGED outsideAnalyzers

\* FlappingAnalyzer.AnalyzeTopN(n)
FlappingAnalyzer_AnalyzeTopN ==
    \E n \in TopNs :
        /\ call' = [CallOf("FlappingAnalyzer.AnalyzeTopN") EXCEPT !.n = n]
        /\ \E order \in FlapOrders :
               LET allResults == FlapAnalyzeResults(order, now)
                   m == ClampN(n, Len(allResults))
               IN  IF SliceOk(allResults, m)
                   THEN panicked' = FALSE /\ results' = SliceTo(allResults, m)
                   ELSE panicked' = TRUE /\ results' = <<>>
        /\ stats' = ZeroSummaryStats
        /\ history' = HistoryAfter(history)
        /\ UNCHANGED <<given, threshold, now>>
        /\ UNCHANGED outsideAnalyzers

\* FlappingAnalyzer.GetFlappingAlerts
GetFlappingAlerts ==
    /\ call' = CallOf("FlappingAnalyzer.GetFlappingAlerts")
    /\ \E order \in FlapOrders :
           results' = FlappingOf(FlapAnalyzeResults(order, now))
    /\ panicked' = FALSE
    /\ stats' = ZeroSummaryStats
    /\ history' = HistoryAfter(history)
    /\ UNCHANGED <<given, threshold, now>>
    /\ UNCHANGED outsideAnalyzers

\* FlappingAnalyzer.GetSummary
GetSummary ==
    /\ call' = CallOf("FlappingAnalyzer.GetSummary")
    /\ \E order \in FlapOrders :
           stats' = FlappingSummaryOf(FlapAnalyzeResults(order, now), threshold)
    /\ panicked' = FALSE
    /\ results' = <<>>
    /\ history' = HistoryAfter(history)
    /\ UNCHANGED <<given, threshold, now>>
    /\ UNCHANGED outsideAnalyzers

\* The wall clock advances between calls.
Tick ==
    /\ now < Epoch + MaxTime + MaxElapsed
    /\ now' = now + 1
    /\ UNCHANGED <<history, given, threshold, call, results, stats, panicked>>
    /\ UNCHANGED outsideAnalyzers

\* ------------------------------------------------------ MemoryStorage
\* A *collector.AlertHistory seen by the storage: nil, or one of the
\* pointers handed to Store.
NilPtr == 0
Pointers == 1 .. MaxStored
Goroutines == 1 .. MaxGoroutines

\* A goroutine outside every storage method.
Idle == [m |-> "", at |-> "idle"]
NoReturn == [op |-> "new", history |-> NilPtr, err |-> FALSE, has |-> FALSE]

\* NewMemoryStorage: an empty slot and a free mutex.
NewMemoryStorage ==
    /\ slot = NilPtr
    /\ mu = [w |-> 0, readers |-> {}]
    /\ pc = [g \in Goroutines |-> Idle]
    /\ arg = [g \in Goroutines |-> NilPtr]
    /\ local = [g \in Goroutines |-> NilPtr]
    /\ sret = NoReturn
    /\ passed = {}
    /\ latest = NilPtr

\* An RLock that does not wait for a writer.
CanRLockAlways(g) == TRUE

\* sync.RWMutex.RLock goes through when no writer holds or awaits the lock.
CanRLock(g) == mu.w = 0

\* sync.RWMutex.Lock first takes the writers' mutex ...
CanLock(g) == mu.w = 0

\* Store that lets nil through.
StoreRejectsNothing(h) == FALSE

\* The nil check of Store.
StoreRejects(h) == h = NilPtr

\* MemoryStorage.Store(history) up to s.mu.Lock(): a nil history is
\* refused before the lock is touched.  A goroutine's arg and local hold
\* the method's parameter and the value it read; they are NilPtr outside
\* the method.
Store ==
    \E g \in goroutines, h \in {NilPtr} \cup Pointers :
        /\ pc[g] = Idle
        /\ arg' = [arg EXCEPT ![g] = h]
        /\ passed' = passed \cup ({h} \ {NilPtr})
        /\ IF StoreRejects(h)
           THEN /\ sret' = [op |-> "Store", history |-> h,
                            err |-> TRUE, has |-> FALSE]
                /\ pc' = pc
           ELSE /\ pc' = [pc EXCEPT ![g] = [m |-> "Store", at |-> "lock"]]
                /\ sret' = sret
        /\ UNCHANGED <<goroutines, slot, mu, local, latest, outsideStorage>>

\* MemoryStorage.Clear up to s.mu.Lock().
Clear ==
    \E g \in goroutines :
        /\ pc[g] = Idle
        /\ pc' = [pc EXCEPT ![g] = [m |-> "Clear", at |-> "lock"]]
        /\ UNCHANGED <<goroutines, slot, mu, arg, local, sret, passed, latest,
                       outsideStorage>>

\* MemoryStorage.Retrieve up to s.mu.RLock().
Retrieve ==
    \E g \in goroutines :
        /\ pc[g] = Idle
        /\ pc' = [pc EXCEPT ![g] = [m |-> "Retrieve", at |-> "rlock"]]
        /\ UNCHANGED <<goroutines, slot, mu, arg, local, sret, passed, latest,
                       outsideStorage>>

\* MemoryStorage.HasData up to s.mu.RLock().
HasData ==
    \E g \in goroutines :
        /\ pc[g] = Idle
        /\ pc' = [pc EXCEPT ![g] = [m |-> "HasData", at |-> "rlock"]]
        /\ UNCHANGED <<goroutines, slot, mu, arg, local, sret, passed, latest,
                       outsideStorage>>

\* s.mu.Lock(), first half: the goroutine becomes the one writer, and
\* readers arriving from now on wait.
RWMutex_Lock ==
    \E g \in goroutines :
        /\ pc[g].at = "lock"
        /\ CanLock(g)
        /\ mu' = [mu EXCEPT !.w = g]
        /\ pc' = [pc EXCEPT ![g].at = "drain"]
        /\ UNCHANGED <<goroutines, slot, arg, local, sret, passed, latest,
                       outsideStorage>>

\* s.mu.Lock(), second half: it returns once the readers that held the
\* lock have left.
RWMutex_LockDrained ==
    \E g \in goroutines :
        /\ pc[g].at = "drain"
        /\ mu.readers = {}
        /\ pc' = [pc EXCEPT ![g].at = "held"]
        /\ UNCHANGED <<goroutines, slot, mu, arg, local, sret, passed, latest,
                       outsideStorage>>

\* s.mu.RLock()
RWMutex_RLock ==
    \E g \in goroutines :
        /\ pc[g].at = "rlock"
        /\ CanRLock(g)
        /\ mu' = [mu EXCEPT !.readers = @ \cup {g}]
        /\ pc' = [pc EXCEPT ![g].at = "held"]
        /\ UNCHANGED <<goroutines, slot, arg, local, sret, passed, latest,
                       outsideStorage>>

\* Store: s.history = history
Store_Assign ==
    \E g \in goroutines :
        /\ pc[g] = [m |-> "Store", at |-> "held"]
        /\ slot' = arg[g]
        /\ pc' = [pc EXCEPT ![g].at = "done"]
        /\ UNCHANGED <<goroutines, mu, arg, local, sret, passed, latest,
                       outsideStorage>>

\* Store: return nil, the deferred s.mu.Unlock() running on the way out.
Store_Return ==
    \E g \in goroutines :
        /\ pc[g] = [m |-> "Store", at |-> "done"]
        /\ mu' = [mu EXCEPT !.w = 0]
        /\ sret' = [op |-> "Store", history |-> arg[g],
                    err |-> FALSE, has |-> FALSE]
        /\ latest' = arg[g]
        /\ pc' = [pc EXCEPT ![g] = Idle]
        /\ arg' = [arg EXCEPT ![g] = NilPtr]
        /\ UNCHANGED <<goroutines, slot, local, passed, outsideStorage>>

\* Clear: s.history = nil
Clear_Assign ==
    \E g \in goroutines :
        /\ pc[g] = [m |-> "Clear", at |-> "held"]
        /\ slot' = NilPtr
        /\ pc' = [pc EXCEPT ![g].at = "done"]
        /\ UNCHANGED <<goroutines, mu, arg, local, sret, passed, latest,
                       outsideStorage>>

\* Clear: return nil, the deferred s.mu.Unlock() running on the way out.
Clear_Return ==
    \E g \in goroutines :
        /\ pc[g] = [m |-> "Clear", at |-> "done"]
        /\ mu' = [mu EXCEPT !.w = 0]
        /\ sret' = [op |-> "Clear", history |-> NilPtr,
                    err |-> FALSE, has |-> FALSE]
        /\ latest' = NilPtr
        /\ pc' = [pc EXCEPT ![g] = Idle]
        /\ UNCHANGED <<goroutines, slot, arg, local, passed, outsideStorage>>

\* Retrieve: the reads of s.history under the read lock.
Retrieve_Read ==
    \E g \in goroutines :
        /\ pc[g] = [m |-> "Retrieve", at |-> "held"]
        /\ local' = [local EXCEPT ![g] = slot]
        /\ pc' = [pc EXCEPT ![g].at = "done"]
        /\ UNCHANGED <<goroutines, slot, mu, arg, sret, passed, latest,
                       outsideStorage>>

\* Retrieve: return (nil, error) for an empty slot and (s.history, nil)
\* otherwise, the deferred s.mu.RUnlock() running on the way out.
Retrieve_Return ==
    \E g \in goroutines :
        /\ pc[g] = [m |-> "Retrieve", at |-> "done"]
        /\ mu' = [mu EXCEPT !.readers = @ \ {g}]
        /\ sret' = [op |-> "Retrieve", history |-> local[g],
                    err |-> (local[g] = NilPtr), has |-> FALSE]
        /\ pc' = [pc EXCEPT ![g] = Idle]
        /\ local' = [local EXCEPT ![g] = NilPtr]
        /\ UNCHANGED <<goroutines, slot, arg, passed, latest, outsideStorage>>

\* HasData: the read of s.history under the read lock.
HasData_Read ==
    \E g \in goroutines :
        /\ pc[g] = [m |-> "HasData", at |-> "held"]
        /\ local' = [local EXCEPT ![g] = slot]
        /\ pc' = [pc EXCEPT ![g].at = "done"]
        /\ UNCHANGED <<goroutines, slot, mu, arg, sret, passed, latest,
                       outsideStorage>>

\* HasData: return s.history != nil, the deferred s.mu.RUnlock() running
\* on the way out.
HasData_Return ==
    \E g \in goroutines :
        /\ pc[g] = [m |-> "HasData", at |-> "done"]
        /\ mu' = [mu EXCEPT !.readers = @ \ {g}]
        /\ sret' = [op |-> "HasData", history |-> NilPtr,
                    err |-> FALSE, has |-> (local[g] # NilPtr)]
        /\ pc' = [pc EXCEPT ![g] = Idle]
        /\ local' = [local EXCEPT ![g] = NilPtr]
        /\ UNCHANGED <<goroutines, slot, arg, passed, latest, outsideStorage>>

\* ---------------------------------------------------------- Pool.Run
WorkerIds == 1 .. MaxConcurrency

\* NewPool(cfg): nothing runs yet and the collector is empty.  The workers
\* beyond cfg.Concurrency are never started.
NewPool(cfg) ==
    /\ config = cfg
    /\ ctx = "live"
    /\ requestsCh = [len |-> 0, closed |-> FALSE]
    /\ feeder = [at |-> "new", i |-> 0]
    /\ workers = [w \in WorkerIds |-> [at |-> "new", err |-> FALSE]]
    /\ issued = 0
    /\ collected = [total |-> 0, errors |-> 0]
    /\ run = [at |-> "new", err |-> FALSE]

\* The workers Run starts.
Started == 1 .. config.Concurrency

\* A blocked send on requestsCh can go through: the buffer, of capacity
\* Concurrency, has room.
CanSend == requestsCh.len < config.Concurrency /\ ~requestsCh.closed

\* A feeder loop that runs once too often.
FeederLimitOneMore(cfg) == cfg.Requests + 1

\* The tokens the feeder's loop sends: Requests of them with a request
\* limit; without one the loop is followed for at most MaxRequests tokens.
FeederLimit(cfg) == IF cfg.Requests > 0 THEN cfg.Requests ELSE MaxRequests

\* Pool.Run up to wg.Wait(): the context with its timeout, the channel,
\* the feeder goroutine and Concurrency workers.
Pool_Run ==
    /\ run.at = "new"
    /\ run' = [run EXCEPT !.at = "wait"]
    /\ feeder' = [feeder EXCEPT !.at = "loop"]
    /\ workers' = [w \in WorkerIds |->
                      IF w \in Started
                      THEN [at |-> "range", err |-> FALSE] ELSE workers[w]]
    /\ UNCHANGED <<config, ctx, requestsCh, issued, collected, outsidePool>>

\* The Duration of context.WithTimeout elapses.
Timeout ==
    /\ run.at = "wait"
    /\ ctx = "live"
    /\ ctx' = "deadline"
    /\ UNCHANGED <<config, requestsCh, feeder, workers, issued, collected,
                   run, outsidePool>>

\* The feeder's select takes its send case: one more token in the channel.
Feeder_Send ==
    /\ feeder.at = "loop"
    /\ feeder.i < FeederLimit(config)
    /\ CanSend
    /\ requestsCh' = [requestsCh EXCEPT !.len = @ + 1]
    /\ feeder' = [feeder EXCEPT !.i = @ + 1]
    /\ UNCHANGED <<config, ctx, workers, issued, collected, run, outsidePool>>

\* The feeder's select takes its ctx.Done() case: with a request limit it
\* returns at once, without one it closes the channel first.
Feeder_Done ==
    /\ feeder.at = "loop"
    /\ config.Requests > 0 => feeder.i < FeederLimit(config)
    /\ ctx # "live"
    /\ feeder' = [feeder EXCEPT !.at = "returned"]
    /\ requestsCh' = IF config.Requests > 0
                      THEN requestsCh
                      ELSE [requestsCh EXCEPT !.closed = TRUE]
    /\ UNCHANGED <<config, ctx, workers, issued, collected, run, outsidePool>>

\* The feeder with a request limit has sent every token: it closes the
\* channel.
Feeder_Close ==
    /\ feeder.at = "loop"
    /\ config.Requests > 0
    /\ feeder.i = FeederLimit(config)
    /\ feeder' = [feeder EXCEPT !.at = "returned"]
    /\ requestsCh' = [requestsCh EXCEPT !.closed = TRUE]
    /\ UNCHANGED <<config, ctx, workers, issued, collected, run, outsidePool>>

\* A worker's `for range requests` and the select after it: it takes a
\* token and goes on to the request unless the context is done, and
\* leaves the loop when the channel is closed and empty.
Worker_Range ==
    \E w \in Started :
        /\ workers[w].at = "range"
        /\ requestsCh.len > 0 \/ requestsCh.closed
        /\ IF requestsCh.len > 0
           THEN /\ requestsCh' = [requestsCh EXCEPT !.len = @ - 1]
                /\ workers' = [workers EXCEPT ![w].at =
                                  IF ctx # "live" THEN "done" ELSE "request"]
           ELSE /\ requestsCh' = requestsCh
                /\ workers' = [workers EXCEPT ![w].at = "done"]
        /\ UNCHANGED <<config, ctx, feeder, issued, collected, run,
                       outsidePool>>

\* A worker builds the request and sends it with p.client.Do: it succeeds
\* or fails, and fails when the context is done by then.
Worker_Request ==
    \E w \in Started, failed \in BOOLEAN :
        /\ workers[w].at = "request"
        /\ ctx # "live" => failed
        /\ issued' = issued + 1
        /\ workers' = [workers EXCEPT ![w] = [at |-> "add", err |-> failed]]
        /\ UNCHANGED <<config, ctx, requestsCh, feeder, collected, run,
                       outsidePool>>

\* p.collector.Add(result), an append under the collector's mutex.
Worker_Add ==
    \E w \in Started :
        /\ workers[w].at = "add"
        /\ collected' = [total  |-> collected.total + 1,
                         errors |-> collected.errors
                                      + (IF workers[w].err THEN 1 ELSE 0)]
        /\ workers' = [workers EXCEPT ![w] = [at |-> "range", err |-> FALSE]]
        /\ UNCHANGED <<config, ctx, requestsCh, feeder, issued, run,
                       outsidePool>>

\* wg.Wait() returns once every worker has left its loop; Run reports and
\* returns nil, the deferred cancel() ending the context.
Run_Return ==
    /\ run.at = "wait"
    /\ \A w \in Started : workers[w].at = "done"
    /\ run' = [at |-> "returned", err |-> FALSE]
    /\ ctx' = IF ctx = "live" THEN "canceled" ELSE ctx
    /\ UNCHANGED <<config, requestsCh, feeder, workers, issued, collected,
                   outsidePool>>

\* The configurations a pool is built with: Requests = 0 is the infinite
\* mode.
PoolConfigs ==
    [Requests : 0 .. MaxRequests, Concurrency : 1 .. MaxConcurrency]

\* The pool's side of a state in which no pool is involved.
NoPool == NewPool([Requests |-> 0, Concurrency |-> 1])

\* ------------------------------------------------- PrometheusCollector
\* In this part a time.Time is a number of whole seconds and a sample's
\* Timestamp a number of milliseconds.  A metric and an alert's Labels are
\* maps, kept as functions from label name to value.

\* The keys of a label map.
LabelKeys(labels) == DOMAIN labels

\* The "_k=v" pieces createAlertKey appends, in the order its range over
\* the map visits the labels.
RangedPairs(labels, order) ==
    [ i \in DOMAIN order |-> <<order[i], labels[order[i]]>> ]

\* createAlertKey(name, labels), the map being ranged over in `order`:
\* the name followed by one piece per label.
createAlertKey(name, labels, order) ==
    <<name>> \o RangedPairs(labels, order)

\* The labels parseAlerts keeps of a metric: all but alertname and
\* alertstate.
AlertLabels(metric) ==
    [ k \in DOMAIN metric \ {"alertname", "alertstate"} |-> metric[k] ]

\* An alertName that is never empty: a series without the label is
\* given the name "unknown" and is not skipped.
AlertNameOfUnknown(metric) ==
    IF "alertname" \in DOMAIN metric THEN metric["alertname"] ELSE "unknown"

\* stream.Metric["alertname"], "" when the label is absent.
AlertNameOf(metric) ==
    IF "alertname" \in DOMAIN metric THEN metric["alertname"] ELSE ""

\* time.Unix(int64(sample.Timestamp)/1000, 0)
SampleTime(sample) == Quot(sample.Timestamp, Millis)

\* The entry of alertMap under a key; the map is a set of [key, alert].
HasKey(alertMap, key) == \E e \in alertMap : e.key = key
AtKey(alertMap, key) == (CHOOSE e \in alertMap : e.key = key).alert

\* The body of the sample loop for one sample: a new alert under a new
\* key, a resolution for a known key on its first zero value.
ParseSample(alertMap, name, labels, sample, order) ==
    LET key == createAlertKey(name, labels, order)
    IN  IF ~HasKey(alertMap, key)
        THEN alertMap \cup
               {[key |-> key,
                 alert |-> [Name |-> name, Labels |-> labels,
                            State |-> "firing", Value |-> sample.Value,
                            ActiveAt |-> SampleTime(sample),
                            FiredAt |-> SampleTime(sample),
                            ResolvedAt |-> NilTime]]}
        ELSE LET alert == AtKey(alertMap, key)
             IN  IF sample.Value = 0 /\ alert.ResolvedAt = NilTime
                 THEN (alertMap \ {[key |-> key, alert |-> alert]}) \cup
                        {[key |-> key,
                          alert |-> [alert EXCEPT
                                        !.ResolvedAt = SampleTime(sample),
                                        !.State = "inactive"]]}
                 ELSE alertMap

\* The sample loop over one stream; orders[j] is the order in which
\* createAlertKey ranges over the labels for sample j.
RECURSIVE ParseSamples(_, _, _, _, _)
ParseSamples(alertMap, name, labels, values, orders) ==
    IF values = <<>> THEN alertMap
    ELSE ParseSample(ParseSamples(alertMap, name, labels, Front(values), orders),
                     name, labels, Last(values), orders[Len(values)])

\* The stream loop: a stream without an alertname is skipped.
RECURSIVE ParseStreams(_, _)
ParseStreams(matrix, orders) ==
    IF matrix = <<>> THEN {}
    ELSE LET before == ParseStreams(Front(matrix), orders)
             stream == Last(matrix)
         IN  IF AlertNameOf(stream.Metric) = "" THEN before
             ELSE ParseSamples(before, AlertNameOf(stream.Metric),
                               AlertLabels(stream.Metric), stream.Values,
                               orders[Len(matrix)])

\* The keys createAlertKey returns over the whole call, per stream.
KeysOfCall(matrix, orders) ==
    [ s \in DOMAIN matrix |->
        { createAlertKey(AlertNameOf(matrix[s].Metric),
                         AlertLabels(matrix[s].Metric), orders[s][j]) :
            j \in DOMAIN matrix[s].Values } ]

\* The orders open to the createAlertKey calls of one parseAlerts call:
\* one per sample of every stream.
KeyOrders(matrix) ==
    LET per(s) == [ DOMAIN matrix[s].Values ->
                      RangeOrders(LabelKeys(AlertLabels(matrix[s].Metric))) ]
    IN  { o \in [ DOMAIN matrix -> UNION { per(s) : s \in DOMAIN matrix } ] :
            \A s \in DOMAIN matrix : o[s] \in per(s) }

NotParsed == [at |-> "new", alerts |-> <<>>, err |-> FALSE]

\* PrometheusCollector.parseAlerts: an error for a value that is not a
\* matrix; otherwise the alerts of alertMap, in the order the final range
\* over the map visits them.
PrometheusCollector_parseAlerts ==
    /\ parsed.at = "new"
    /\ IF queryResult.type # "matrix"
       THEN /\ parsed' = [at |-> "returned", alerts |-> <<>>, err |-> TRUE]
            /\ seenKeys' = <<>>
       ELSE \E orders \in KeyOrders(queryResult.matrix) :
              LET alertMap == ParseStreams(queryResult.matrix, orders)
              IN  \E out \in RangeOrders({ e.key : e \in alertMap }) :
                    /\ parsed' = [at |-> "returned",
                                  alerts |-> [ i \in DOMAIN out |->
                                                 AtKey(alertMap, out[i]) ],
                                  err |-> FALSE]
                    /\ seenKeys' = KeysOfCall(queryResult.matrix, orders)
    /\ UNCHANGED <<queryResult, listing, snapshot, outsideCollector>>

\* A fresh call on the same query result.
PrometheusCollector_Collect ==
    /\ parsed.at = "returned"
    /\ parsed' = NotParsed
    /\ seenKeys' = <<>>
    /\ UNCHANGED <<queryResult, listing, snapshot, outsideCollector>>

\* The metrics of ALERTS series: an alertname or none, the alertstate
\* (pending or firing), and none, one or two further labels.
Metrics ==
    { [k \in ks |-> CASE k = "alertname" -> "HighCPU"
                      [] k = "alertstate" -> state
                      [] k = "severity" -> "warning"
                      [] OTHER -> "node1"] :
        ks \in { {"alertstate"} \cup n \cup l :
                    n \in {{}, {"alertname"}},
                    l \in {{}, {"severity"}, {"severity", "instance"}} },
        state \in {"firing", "pending"} }

\* The samples of a series: consecutive steps of one second, from the
\* query's start or from a later step when the series begins later, each
\* with value 0 or 1.
SampleSeqs(start) ==
    UNION { UNION { { [ j \in 1 .. n |->
                          [Timestamp |-> start + (first + j - 2) * Millis,
                           Value |-> v[j]] ] :
                        v \in [1 .. n -> {0, 1}] } :
                    n \in 0 .. MaxSamples - first + 1 } :
            first \in 1 .. MaxSamples }

\* The range-query results: up to MaxSeries series with different metrics,
\* sampled from a start that falls on a whole second or between two.
Matrices ==
    UNION { { m \in [1 .. n -> [Metric : Metrics, Values : SampleSeqs(start)]] :
                \A a, b \in 1 .. n : a # b => m[a].Metric # m[b].Metric } :
            n \in 0 .. MaxSeries, start \in {0, Millis \div 2} }

\* ----------------------------------------------- AlertmanagerCollector
\* Here a time.Time is a number of ticks, as for the analyzers, and the
\* clock is `now`.  amAlert is a fresh variable in every iteration of the
\* loop (the toolchain the project requires is Go 1.24), so each
\* &amAlert.EndsAt points at its own entry's end time.

\* amAlert.Labels["alertname"], "" when the label is absent.
AmName(amAlert) ==
    IF "alertname" \in DOMAIN amAlert.Labels
    THEN amAlert.Labels["alertname"] ELSE ""

\* !amAlert.EndsAt.IsZero() && amAlert.EndsAt.Before(now), with the
\* comparison not strict.
AmEndedNotAfter(amAlert, t) == amAlert.EndsAt # ZeroTime /\ amAlert.EndsAt <= t

\* !amAlert.EndsAt.IsZero() && amAlert.EndsAt.Before(now)
AmEnded(amAlert, t) == amAlert.EndsAt # ZeroTime /\ amAlert.EndsAt < t

\* The body of the loop: the Alert made of one entry of the listing.
AmAlertOf(amAlert, t) ==
    [Name |-> IF AmName(amAlert) = "" THEN "unknown" ELSE AmName(amAlert),
     Labels |-> amAlert.Labels,
     State |-> IF AmEnded(amAlert, t) THEN "resolved" ELSE "firing",
     Value |-> 1,
     ActiveAt |-> amAlert.StartsAt,
     FiredAt |-> amAlert.StartsAt,
     ResolvedAt |-> IF AmEnded(amAlert, t) THEN amAlert.EndsAt ELSE NilTime]

NotCollected == [at |-> "new", history |-> NilHistory, err |-> FALSE]

\* AlertmanagerCollector.CollectCurrentAlerts: an error when the listing
\* fails; otherwise one Alert per entry, in the listing's order, in a
\* history whose window is the instant of the call.
AlertmanagerCollector_CollectCurrentAlerts ==
    /\ snapshot.at = "new"
    /\ IF listing.err
       THEN snapshot' = [at |-> "returned", history |-> NilHistory,
                         err |-> TRUE]
       ELSE snapshot' =
              [at |-> "returned",
               history |-> [isNil |-> FALSE,
                            Alerts |-> [ i \in DOMAIN listing.alerts |->
                                           AmAlertOf(listing.alerts[i], now) ],
                            StartTime |-> now,
                            EndTime |-> now,
                            Source |-> "alertmanager"],
               err |-> FALSE]
    /\ UNCHANGED <<queryResult, parsed, seenKeys, listing, outsideCollector>>

\* The label maps of listed alerts: no alertname, an alertname, an
\* alertname and a severity.
AmLabels ==
    { [k \in ks |-> IF k = "alertname" THEN "AlertA" ELSE "warning"] :
        ks \in {{}, {"alertname"}, {"alertname", "severity"}} }

\* The entries Alertmanager lists: a start time, and an end time that is
\* unset or not before the start.
AmAlerts ==
    { a \in [Labels : AmLabels, StartsAt : Times,
              EndsAt : {ZeroTime} \cup (Epoch .. Epoch + MaxTime + MaxElapsed)] :
        a.EndsAt = ZeroTime \/ a.EndsAt >= a.StartsAt }

\* The answers of client.ListAlerts: an error, or up to MaxListed entries.
Listings ==
    {[alerts |-> <<>>, err |-> TRUE]} \cup
    { [alerts |-> l, err |-> FALSE] :
        l \in UNION { [1 .. n -> AmAlerts] : n \in 0 .. MaxListed } }

\* The Alertmanager side of a state in which that collector is not used.
NoAlertmanager ==
    /\ listing = [alerts |-> <<>>, err |-> FALSE]
    /\ snapshot = NotCollected

\* The collector's side of a state in which no collector is involved.
NoCollector ==
    /\ queryResult = [type |-> "matrix", matrix |-> <<>>]
    /\ parsed = NotParsed
    /\ seenKeys = <<>>
    /\ NoAlertmanager

\* ----------------------------------------------------- specifications
InitCommon ==
    /\ now = Epoch + MaxTime
    /\ call = NoCall
    /\ results = <<>>
    /\ stats = ZeroSummaryStats
    /\ panicked = FALSE

\* The analyzers' side of a state in which only the storage is exercised.
NoAnalyzer ==
    /\ history = NilHistory
    /\ given = 0
    /\ threshold = NewFlappingAnalyzer(given)
    /\ InitCommon

\* The storage's side of a state in which no goroutine uses it.
NoStorage ==
    /\ goroutines = {}
    /\ NewMemoryStorage

\* A frequency analyzer constructed on nil, on a history of bare episodes
\* or on a collected history; the window and the threshold play no part
\* in it.
Init ==
    /\ history \in {NilHistory} \cup BareHistories(MaxAlerts) \cup
          { HistoryOf(as, Epoch, Epoch + MaxTime, "prometheus") :
                as \in AlertLists("inactive", MaxAlerts) }
    /\ given = 0
    /\ threshold = NewFlappingAnalyzer(given)
    /\ InitCommon
    /\ NoStorage
    /\ NoPool
    /\ NoCollector

Next ==
    \/ FrequencyAnalyzer_Analyze
    \/ FrequencyAnalyzer_AnalyzeTopN
    \/ GetNoisyAlerts
    \/ GetSummaryStats
    \/ Tick

Spec == Init /\ [][Next]_vars

\* A flapping analyzer constructed on any history (or on nil) with any
\* threshold.
InitFlap ==
    /\ history \in {NilHistory} \cup BareHistories(MaxFlapAlerts) \cup
          { HistoryOf(as, w[1], w[2], "prometheus") :
                as \in AlertLists("inactive", MaxFlapAlerts)
                          \cup AlertLists("firing", MaxFlapAlerts),
                w \in Times \X Times }
    /\ given \in -1 .. MaxThreshold
    /\ threshold = NewFlappingAnalyzer(given)
    /\ InitCommon
    /\ NoStorage
    /\ NoPool
    /\ NoCollector

NextFlap ==
    \/ FlappingAnalyzer_Analyze
    \/ FlappingAnalyzer_AnalyzeTopN
    \/ GetFlappingAlerts
    \/ GetSummary
    \/ Tick

SpecFlap == InitFlap /\ [][NextFlap]_vars

\* Both analyzers constructed on the same history (or on nil).
InitBoth ==
    /\ history \in {NilHistory} \cup BareHistories(MaxFlapAlerts) \cup
          { HistoryOf(as, Epoch, Epoch + MaxTime, "prometheus") :
                as \in AlertLists("firing", MaxFlapAlerts) }
    /\ given \in {0, MaxThreshold}
    /\ threshold = NewFlappingAnalyzer(given)
    /\ InitCommon
    /\ NoStorage
    /\ NoPool
    /\ NoCollector

NextBoth ==
    \/ FrequencyAnalyzer_Analyze
    \/ FrequencyAnalyzer_AnalyzeTopN
    \/ GetNoisyAlerts
    \/ GetSummaryStats
    \/ FlappingAnalyzer_Analyze
    \/ FlappingAnalyzer_AnalyzeTopN
    \/ GetFlappingAlerts
    \/ GetSummary
    \/ Tick

SpecBoth == InitBoth /\ [][NextBoth]_vars

\* A new MemoryStorage shared by MaxGoroutines goroutines.
InitStorage ==
    /\ NoAnalyzer
    /\ NoPool
    /\ NoCollector
    /\ goroutines = Goroutines
    /\ NewMemoryStorage

NextStorage ==
    \/ Store
    \/ Clear
    \/ Retrieve
    \/ HasData
    \/ RWMutex_Lock
    \/ RWMutex_LockDrained
    \/ RWMutex_RLock
    \/ Store_Assign
    \/ Store_Return
    \/ Clear_Assign
    \/ Clear_Return
    \/ Retrieve_Read
    \/ Retrieve_Return
    \/ HasData_Read
    \/ HasData_Return

SpecStorage == InitStorage /\ [][NextStorage]_vars

\* A new MemoryStorage used by one goroutine: its calls follow one another.
InitStorageSeq ==
    /\ NoAnalyzer
    /\ NoPool
    /\ NoCollector
    /\ goroutines = {1}
    /\ NewMemoryStorage

SpecStorageSeq == InitStorageSeq /\ [][NextStorage]_vars

\* A new pool with any configuration.
InitPool ==
    /\ NoAnalyzer
    /\ NoStorage
    /\ NoCollector
    /\ \E cfg \in PoolConfigs : NewPool(cfg)

NextPool ==
    \/ Pool_Run
    \/ Timeout
    \/ Feeder_Send
    \/ Feeder_Done
    \/ Feeder_Close
    \/ Worker_Range
    \/ Worker_Request
    \/ Worker_Add
    \/ Run_Return

SpecPool == InitPool /\ [][NextPool]_vars

\* The same pool under Go's scheduling: a goroutine that can take a step
\* eventually takes one, a select with a ready case eventually proceeds,
\* and the context's timer eventually fires.
PoolFairness ==
    /\ WF_vars(Pool_Run)
    /\ WF_vars(Timeout)
    /\ WF_vars(Feeder_Send \/ Feeder_Done)
    /\ WF_vars(Feeder_Close)
    /\ WF_vars(Worker_Range)
    /\ WF_vars(Worker_Request)
    /\ WF_vars(Worker_Add)
    /\ WF_vars(Run_Return)

SpecPoolFair == InitPool /\ [][NextPool]_vars /\ PoolFairness

\* A Prometheus collector handed any range-query result, or a value that
\* is not a matrix.
InitParse ==
    /\ NoAnalyzer
    /\ NoStorage
    /\ NoPool
    /\ queryResult \in {[type |-> "vector", matrix |-> <<>>]} \cup
                        { [type |-> "matrix", matrix |-> m] : m \in Matrices }
    /\ parsed = NotParsed
    /\ seenKeys = <<>>
    /\ NoAlertmanager

NextParse ==
    \/ PrometheusCollector_parseAlerts
    \/ PrometheusCollector_Collect

SpecParse == InitParse /\ [][NextParse]_vars

\* Both analyzers on one history whose episodes differ in severity.
InitSeverity ==
    /\ history \in { HistoryOf(as, Epoch, Epoch + MaxTime, "prometheus") :
                        as \in UNION { [1 .. k -> LabelledEpisodes] :
                                          k \in 0 .. MaxFlapAlerts } }
    /\ given = 0
    /\ threshold = NewFlappingAnalyzer(given)
    /\ InitCommon
    /\ NoStorage
    /\ NoPool
    /\ NoCollector

NextSeverity ==
    \/ FrequencyAnalyzer_Analyze
    \/ FlappingAnalyzer_Analyze
    \/ Tick

SpecSeverity == InitSeverity /\ [][NextSeverity]_vars

\* An Alertmanager collector called once, at some instant, on any listing.
InitAlertmanager ==
    /\ NoAnalyzer
    /\ NoStorage
    /\ NoPool
    /\ queryResult = [type |-> "matrix", matrix |-> <<>>]
    /\ parsed = NotParsed
    /\ seenKeys = <<>>
    /\ listing \in Listings
    /\ snapshot = NotCollected

NextAlertmanager ==
    \/ AlertmanagerCollector_CollectCurrentAlerts
    \/ Tick

SpecAlertmanager == InitAlertmanager /\ [][NextAlertmanager]_vars

\* ------------------------------------------------- what the claims read
\* The history's episodes of one identity, as positions in the episode list.
EpisodesOf(name) ==
    { i \in DOMAIN history.Alerts : history.Alerts[i].Name = name }

\* The distinct identity names of the history.
Identities == { history.Alerts[i].Name : i \in DOMAIN history.Alerts }

\* The position at which an identity first appears in the episode list.
FirstSeen(name) ==
    CHOOSE i \in EpisodesOf(name) : \A j \in EpisodesOf(name) : i <= j

\* An episode's duration as read by the last call: "now" is the clock value
\* at the time of the call.
EpisodeDuration(i) ==
    IF history.Alerts[i].ResolvedAt # NilTime
    THEN history.Alerts[i].ResolvedAt - history.Alerts[i].FiredAt
    ELSE call.at - history.Alerts[i].FiredAt

\* The durations of an identity's episodes, added up.
TotalDurationOf(name) ==
    SumSeq([ i \in DOMAIN history.Alerts |->
                IF i \in EpisodesOf(name) THEN EpisodeDuration(i) ELSE 0 ])

ResultNames == { results[i].AlertName : i \in DOMAIN results }

FlapListOps ==
    {"FlappingAnalyzer.Analyze", "FlappingAnalyzer.AnalyzeTopN",
     "FlappingAnalyzer.GetFlappingAlerts"}

NoEpisodes == history.isNil \/ Len(history.Alerts) = 0

\* The analysis window in ticks, one hour standing in for a window that is
\* zero or negative.
WindowTicks ==
    IF history.EndTime - history.StartTime > 0
    THEN history.EndTime - history.StartTime
    ELSE Hour

\* ----------------------------------------------------------------- C1
\* C1: on a nil history and on a history without episodes, every list call
\* of both analyzers returns the empty list, GetSummaryStats returns the
\* all-zero SummaryStats, GetSummary returns a FlappingSummary whose only
\* non-zero field is the threshold, and no call fails.
C1_EmptyHistoryClaim ==
    (NoEpisodes /\ call.op # "new") =>
        /\ ~panicked
        /\ results = <<>>
        /\ call.op = "FrequencyAnalyzer.GetSummaryStats"
              => stats = ZeroSummaryStats
        /\ call.op = "FlappingAnalyzer.GetSummary"
              => stats = [ZeroFlappingSummary EXCEPT !.Threshold = threshold]

\* ----------------------------------------------------------------- C2
\* C2: two Analyze calls of the same analyzer on the same history return
\* the same list: same identities, same order, same field values.
C2_AnalyzeTwiceClaim ==
    [][ ( /\ call.op \in {"FrequencyAnalyzer.Analyze", "FlappingAnalyzer.Analyze"}
          /\ call'.op = call.op
          /\ ~panicked /\ ~panicked' )
        => results' = results ]_vars

\* ----------------------------------------------------------------- C3
\* The episodes of an identity in fired_at order do not overlap: each but
\* the last is resolved, and the next one fires strictly later.
NonOverlapping(g) ==
    \A i \in 1 .. Len(g) - 1 :
        /\ g[i].ResolvedAt # NilTime
        /\ g[i + 1].FiredAt > g[i].ResolvedAt

GroupInFiredOrder(name) ==
    SortByFiredAt(SelectSeq(history.Alerts, LAMBDA a : a.Name = name))

\* C3: an identity with k non-overlapping episodes has TransitionCount 2k
\* when the last episode is resolved and 2k-1 when it is open, whatever the
\* state field of its resolved episodes.
C3_TransitionCountClaim ==
    call.op = "FlappingAnalyzer.Analyze" =>
        \A i \in DOMAIN results :
            LET g == GroupInFiredOrder(results[i].AlertName)
            IN  NonOverlapping(g) =>
                    results[i].TransitionCount =
                        IF g[Len(g)].ResolvedAt # NilTime
                        THEN 2 * Len(g) ELSE 2 * Len(g) - 1

C5_DiscoveryOrderClaim ==
    (call.op = "FrequencyAnalyzer.Analyze" /\ ~panicked) =>
        \A i, j \in DOMAIN results :
            i < j =>
                /\ results[i].FiringCount >= results[j].FiringCount
                /\ results[i].FiringCount = results[j].FiringCount
                      => FirstSeen(results[i].AlertName)
                             < FirstSeen(results[j].AlertName)

\* ----------------------------------------------------------------- C6
\* C6: for a non-empty history Analyze returns one result per distinct
\* identity and the firing counts add up to the number of episodes;
\* GetSummaryStats reports TotalFirings = TotalAlerts = that number and
\* UniqueAlerts = the number of distinct identities.
C6_OneResultPerIdentityAndCountsAddUp ==
    ~NoEpisodes =>
        /\ call.op = "FrequencyAnalyzer.Analyze" =>
              /\ Len(results) = Cardinality(Identities)
              /\ ResultNames = Identities
              /\ SumSeq([ i \in DOMAIN results |-> results[i].FiringCount ])
                     = Len(history.Alerts)
        /\ call.op = "FrequencyAnalyzer.GetSummaryStats" =>
              /\ stats.TotalFirings = Len(history.Alerts)
              /\ stats.TotalAlerts = Len(history.Alerts)
              /\ stats.UniqueAlerts = Cardinality(Identities)

C6_Witness ==
    /\ call.op = "FrequencyAnalyzer.GetSummaryStats"
    /\ Len(history.Alerts) = 3
    /\ stats.TotalFirings = 3
    /\ stats.UniqueAlerts = 2

\* ----------------------------------------------------------------- C7
\* C7: every FrequencyResult returned by FrequencyAnalyzer.Analyze, for
\* every history, has FiringCount >= 1 and TotalTime >= 0.
C7_CountPositiveTotalNonNegativeClaim ==
    (call.op = "FrequencyAnalyzer.Analyze" /\ ~panicked) =>
        \A i \in DOMAIN results :
            results[i].FiringCount >= 1 /\ results[i].TotalTime >= 0

\* ----------------------------------------------------------------- C8
\* The lists Analyze can return for the history at the time of the call.
FreqRankedLists ==
    { FreqAnalyzeIn(history, o, call.at) : o \in RangeOrders(Identities) }
FlapRankedLists ==
    { FlapAnalyzeResults(o, call.at) : o \in FlapOrders }

C10_PerIdentityAggregatesClaim ==
    (call.op = "FrequencyAnalyzer.Analyze" /\ ~panicked) =>
        \A i \in DOMAIN results :
            LET eps == EpisodesOf(results[i].AlertName)
            IN  /\ results[i].FiringCount = Cardinality(eps)
                /\ results[i].TotalTime = TotalDurationOf(results[i].AlertName)
                /\ results[i].AvgDuration
                       = Quot(results[i].TotalTime, results[i].FiringCount)
                /\ \E e \in eps : results[i].LastFired = history.Alerts[e].FiredAt
                /\ \A e \in eps : results[i].LastFired >= history.Alerts[e].FiredAt

\* ---------------------------------------------------------------- C11
\* An identity's average duration as Analyze reports it at the time of the
\* call.
AvgDurationOf(name) ==
    FreqAnalyzeAlertGroup(name, GroupAlertsByName(history.Alerts)[name],
                          call.at).AvgDuration

\* C11: for a non-empty history GetSummaryStats reports AvgDuration =
\* TotalFiringTime / TotalFirings, MostFrequent = an identity of maximal
\* firing count, and LongestAvgDuration = the identity of maximal average
\* duration, the first-seen one when several share the maximum.
C11_SummaryStatsClaim ==
    (call.op = "FrequencyAnalyzer.GetSummaryStats" /\ ~NoEpisodes) =>
        /\ ~panicked
        /\ stats.AvgDuration = Quot(stats.TotalFiringTime, stats.TotalFirings)
        /\ stats.MostFrequent \in Identities
        /\ \A n \in Identities :
              Cardinality(EpisodesOf(stats.MostFrequent))
                  >= Cardinality(EpisodesOf(n))
        /\ stats.LongestAvgDuration \in Identities
        /\ \A n \in Identities :
              \/ AvgDurationOf(stats.LongestAvgDuration) > AvgDurationOf(n)
              \/ /\ AvgDurationOf(stats.LongestAvgDuration) = AvgDurationOf(n)
                 /\ FirstSeen(stats.LongestAvgDuration) <= FirstSeen(n)

\* ---------------------------------------------------------------- C12
\* An identity's FlappingResult as Analyze computes it at the time of the
\* call.
FlapResultOf(name) ==
    FlapAnalyzeAlertGroup(name, GroupAlertsByName(history.Alerts)[name],
                          AnalysisPeriod(history), threshold, call.at)

ScoreEq(x, y) == x.num * y.den = y.num * x.den

\* C12: for a history with at least one episode GetSummary reports
\* TotalAlerts = the number of identities, FlappingAlerts = the number of
\* flapping identities, MaxFlappingScore = the maximum score, and
\* MostFlapping = the name of an identity with that score (the first-seen
\* one on ties), also when every score is 0.
C12_FlappingSummaryClaim ==
    (call.op = "FlappingAnalyzer.GetSummary" /\ ~NoEpisodes) =>
        /\ stats.TotalAlerts = Cardinality(Identities)
        /\ stats.FlappingAlerts =
              Cardinality({ n \in Identities : FlapResultOf(n).IsFlapping })
        /\ \E n \in Identities :
              ScoreEq(stats.MaxFlappingScore, FlapResultOf(n).FlappingScore)
        /\ \A n \in Identities :
              ~ScoreGT(FlapResultOf(n).FlappingScore, stats.MaxFlappingScore)
        /\ stats.MostFlapping \in Identities
        /\ \A n \in Identities :
              ScoreEq(FlapResultOf(n).FlappingScore, stats.MaxFlappingScore)
                  => FirstSeen(stats.MostFlapping) <= FirstSeen(n)

\* ---------------------------------------------------------------- C13
\* The position of an identity's result in a result list.
PosIn(all, name) == CHOOSE k \in DOMAIN all : all[k].AlertName = name

\* C13: FlappingAnalyzer.Analyze returns one result per distinct identity,
\* in non-increasing FlappingScore order, and GetFlappingAlerts returns
\* exactly the results of that ranking that have IsFlapping, in the
\* ranking's order.
C13_OnePerIdentityRankedAndFiltered ==
    /\ call.op = "FlappingAnalyzer.Analyze" =>
          /\ Len(results) = Cardinality(Identities)
          /\ ResultNames = Identities
          /\ \A i, j \in DOMAIN results :
                i < j => ~ScoreGT(results[j].FlappingScore,
                                  results[i].FlappingScore)
    /\ call.op = "FlappingAnalyzer.GetFlappingAlerts" =>
          \E all \in FlapRankedLists :
              /\ \A i \in DOMAIN results :
                    /\ results[i].IsFlapping
                    /\ \E k \in DOMAIN all : results[i] = all[k]
              /\ ResultNames =
                    { all[k].AlertName : k \in
                        { k \in DOMAIN all : all[k].IsFlapping } }
              /\ Len(results) = Cardinality(ResultNames)
              /\ \A i, j \in DOMAIN results :
                    i < j => PosIn(all, results[i].AlertName)
                                 < PosIn(all, results[j].AlertName)

\* GetFlappingAlerts keeps one of two identities: the other does not flap.
C13_Witness ==
    /\ call.op = "FlappingAnalyzer.GetFlappingAlerts"
    /\ Cardinality(Identities) = 2
    /\ Len(results) = 1
    /\ results[1].IsFlapping

\* ---------------------------------------------------------------- C14
\* The threshold the analyzer is meant to work with, from the one given.
EffectiveThreshold ==
    IF given <= 0 THEN DefaultFlappingThreshold ELSE given

\* C14: NewFlappingAnalyzer does not fail; it keeps the default 3 for a
\* given threshold <= 0 and the given value otherwise, and both the
\* IsFlapping classification and GetSummary().Threshold use that value.
C14_EffectiveThresholdUsed ==
    /\ threshold = EffectiveThreshold
    /\ call.op = "new" => ~panicked
    /\ call.op = "FlappingAnalyzer.GetSummary" =>
          stats.Threshold = EffectiveThreshold
    /\ call.op \in FlapListOps =>
          \A i \in DOMAIN results :
              results[i].IsFlapping <=>
                  ScoreGE(results[i].FlappingScore, EffectiveThreshold)

\* An analyzer built with a non-positive threshold reports the default and
\* classifies an identity as flapping against it.
C14_Witness ==
    /\ given <= 0
    /\ call.op = "FlappingAnalyzer.GetSummary"
    /\ stats.Threshold = DefaultFlappingThreshold
    /\ stats.FlappingAlerts >= 1
    /\ stats.FlappingAlerts < stats.TotalAlerts

\* ---------------------------------------------------------------- C15
\* The goroutines inside a writing method's locked section, and those
\* inside a reading method's.
SlotWriters ==
    { g \in goroutines :
        pc[g].m \in {"Store", "Clear"} /\ pc[g].at \in {"held", "done"} }
SlotReaders ==
    { g \in goroutines :
        pc[g].m \in {"Retrieve", "HasData"} /\ pc[g].at \in {"held", "done"} }

\* C15: under every interleaving a Store or Clear holds the slot alone,
\* with no other Store or Clear and no Retrieve or HasData beside it; and
\* every Retrieve returns a history that some Store passed in, or an error.
C15_WritersExcludeEveryone ==
    /\ Cardinality(SlotWriters) <= 1
    /\ SlotWriters # {} => SlotReaders = {}
    /\ sret.op = "Retrieve" =>
          \/ sret.err /\ sret.history = NilPtr
          \/ ~sret.err /\ sret.history \in passed

\* A Retrieve and a HasData hold the slot together while a Store waits
\* for them to leave.
C15_Witness ==
    /\ \E g, r \in SlotReaders : pc[g].m = "Retrieve" /\ pc[r].m = "HasData"
    /\ \E w \in goroutines : pc[w] = [m |-> "Store", at |-> "drain"]

\* ---------------------------------------------------------------- C16
\* C16: when the calls follow one another, Retrieve returns the history of
\* the most recent successful Store if no Clear followed it and an error
\* with no history otherwise (a new storage included); HasData is true
\* exactly when Retrieve would succeed; Store(nil) returns an error and
\* leaves the stored history as it was.
C16_RetrieveReturnsLatestStore ==
    /\ sret.op = "Retrieve" =>
          IF latest # NilPtr
          THEN ~sret.err /\ sret.history = latest
          ELSE sret.err /\ sret.history = NilPtr
    /\ sret.op = "HasData" => (sret.has <=> latest # NilPtr)
    /\ (sret.op = "Store" /\ sret.history = NilPtr) => sret.err
    /\ (\A g \in goroutines : pc[g] = Idle) => slot = latest

\* Store(nil) has just been refused on a storage that holds a history.
C16_Witness ==
    /\ sret = [op |-> "Store", history |-> NilPtr, err |-> TRUE, has |-> FALSE]
    /\ latest # NilPtr
    /\ slot = latest
    /\ Cardinality(passed) = MaxStored

\* ---------------------------------------------------------------- C17
\* The Duration timeout fired before Run returned.
TimedOut == ctx = "deadline"

\* C17: with a request limit N > 0 and any concurrency, the workers never
\* issue more than N requests; when Run returns without the timeout having
\* fired they have issued exactly N and the collector holds exactly N
\* results; failed requests are among the results; and Run returns nil.
C17_ExactlyNRequests ==
    config.Requests > 0 =>
        /\ issued <= config.Requests
        /\ collected.total <= issued
        /\ collected.errors <= collected.total
        /\ run.at = "returned" =>
              /\ ~run.err
              /\ collected.total = issued
              /\ ~TimedOut =>
                    /\ issued = config.Requests
                    /\ collected.total = config.Requests

\* Run has returned, before the timeout, after more requests than there
\* are workers, some of them failed.
C17_Witness ==
    /\ run.at = "returned"
    /\ ~TimedOut
    /\ config.Concurrency = MaxConcurrency
    /\ issued = MaxRequests
    /\ collected.total = MaxRequests
    /\ collected.errors > 0
    /\ collected.errors < collected.total

\* ---------------------------------------------------------------- C18
\* The walk the claim describes, carried as [trans, cur]: the inferred
\* state alone decides whether an episode emits a fire transition.
RECURSIVE InferredWalk(_)
InferredWalk(episodes) ==
    IF episodes = <<>>
    THEN [trans |-> <<>>, cur |-> "inactive"]
    ELSE LET acc == InferredWalk(Front(episodes))
             e == Last(episodes)
             fires == acc.cur # "firing"
             t1 == IF fires
                   THEN Append(acc.trans,
                            [AlertKey |-> e.Name, Timestamp |-> e.FiredAt,
                             FromState |-> acc.cur, ToState |-> "firing"])
                   ELSE acc.trans
             resolves == e.ResolvedAt # NilTime
         IN  [trans |-> IF resolves
                        THEN Append(t1,
                            [AlertKey |-> e.Name, Timestamp |-> e.ResolvedAt,
                             FromState |-> "firing", ToState |-> "resolved"])
                        ELSE t1,
              cur   |-> IF resolves THEN "resolved" ELSE "firing"]

\* C18: the transitions detectStateTransitions derives for an identity are
\* those of the walk over its episodes in fired_at order in which the
\* inferred state is the only condition for a fire transition.
C18_InferredStateOnlyClaim ==
    call.op = "FlappingAnalyzer.Analyze" =>
        \A i \in DOMAIN results :
            LET g == GroupInFiredOrder(results[i].AlertName)
            IN  /\ DetectStateTransitions(g) = InferredWalk(g).trans
                /\ results[i].TransitionCount = Len(InferredWalk(g).trans)

\* ------------------------------------------------------------ C19, C20
\* The series of a matrix that parseAlerts makes episodes of: those with
\* an alertname and at least one sample.
EpisodeSeries(matrix) ==
    { s \in DOMAIN matrix :
        AlertNameOf(matrix[s].Metric) # "" /\ matrix[s].Values # <<>> }

\* The returned episodes of one series: those with its name and labels.
EpisodesOfSeries(stream) ==
    { i \in DOMAIN parsed.alerts :
        /\ parsed.alerts[i].Name = AlertNameOf(stream.Metric)
        /\ parsed.alerts[i].Labels = AlertLabels(stream.Metric) }

\* The timestamp of the first sample after the first whose value is 0,
\* NilTime when there is none.
FirstLaterZero(values) ==
    LET zeros == { j \in 2 .. Len(values) : values[j].Value = 0 }
    IN  IF zeros = {} THEN NilTime
        ELSE values[CHOOSE j \in zeros : \A k \in zeros : j <= k].Timestamp

\* C19: parseAlerts returns exactly one episode for each distinct
\* (alertname, label set) among the series that have an alertname and at
\* least one sample, all samples of one series falling under one key:
\* createAlertKey returned one key per series during the call.
C19_OneEpisodePerSeriesClaim ==
    (parsed.at = "returned" /\ ~parsed.err) =>
        LET matrix == queryResult.matrix
        IN  /\ Len(parsed.alerts) = Cardinality(EpisodeSeries(matrix))
            /\ \A s \in EpisodeSeries(matrix) :
                  /\ Cardinality(EpisodesOfSeries(matrix[s])) = 1
                  /\ Cardinality(seenKeys[s]) = 1

\* C20: for each series with an alertname the reconstructed episode fires
\* and is active at the timestamp of the first sample and has that
\* sample's value; it is resolved at the timestamp of the first later
\* sample with value 0 and is then inactive; without such a sample it
\* stays firing with no resolution, and is part of the returned history.
C20_EpisodeOfSeriesClaim ==
    (parsed.at = "returned" /\ ~parsed.err) =>
        \A s \in EpisodeSeries(queryResult.matrix) :
          LET values == queryResult.matrix[s].Values
              zero == FirstLaterZero(values)
          IN  /\ EpisodesOfSeries(queryResult.matrix[s]) # {}
              /\ \A i \in EpisodesOfSeries(queryResult.matrix[s]) :
                    LET e == parsed.alerts[i]
                    IN  /\ e.FiredAt * Millis = values[1].Timestamp
                        /\ e.ActiveAt = e.FiredAt
                        /\ e.Value = values[1].Value
                        /\ IF zero = NilTime
                           THEN e.ResolvedAt = NilTime /\ e.State = "firing"
                           ELSE /\ e.ResolvedAt # NilTime
                                /\ e.ResolvedAt * Millis = zero
                                /\ e.State = "inactive"

\* ----------------------------------------------------------------- C21
\* C21 (Prometheus side): every alert parseAlerts returns for series whose
\* samples are in ascending time order that has a resolved_at has
\* resolved_at >= fired_at.
C21_ParsedResolvedNotBeforeFired ==
    (parsed.at = "returned" /\ ~parsed.err) =>
        \A i \in DOMAIN parsed.alerts :
            parsed.alerts[i].ResolvedAt # NilTime =>
                parsed.alerts[i].ResolvedAt >= parsed.alerts[i].FiredAt

\* C21 (Alertmanager side): every alert CollectCurrentAlerts returns that
\* has a resolved_at has resolved_at >= fired_at.
C21_CollectedResolvedNotBeforeFired ==
    (snapshot.at = "returned" /\ ~snapshot.err) =>
        \A i \in DOMAIN snapshot.history.Alerts :
            snapshot.history.Alerts[i].ResolvedAt # NilTime =>
                snapshot.history.Alerts[i].ResolvedAt >=
                    snapshot.history.Alerts[i].FiredAt

\* ----------------------------------------------------------------- C22
\* The series of a matrix that carry an alertname, in the matrix's order.
RECURSIVE WithAlertname(_)
WithAlertname(matrix) ==
    IF matrix = <<>> THEN <<>>
    ELSE IF "alertname" \in DOMAIN Last(matrix).Metric
         THEN Append(WithAlertname(Front(matrix)), Last(matrix))
         ELSE WithAlertname(Front(matrix))

\* The episodes of an alertMap with the number of keys each is under.
EpisodeBag(alertMap) ==
    [ a \in { e.alert : e \in alertMap } |->
        Cardinality({ e \in alertMap : e.alert = a }) ]

\* The bags of episodes a parseAlerts call on a matrix can return.
EpisodeBagsOf(matrix) ==
    { EpisodeBag(ParseStreams(matrix, orders)) : orders \in KeyOrders(matrix) }

\* The episodes returned by the call, with the number of times each is
\* in the list.
ParsedEpisodes ==
    [ a \in { parsed.alerts[i] : i \in DOMAIN parsed.alerts } |->
        Cardinality({ i \in DOMAIN parsed.alerts : parsed.alerts[i] = a }) ]

\* C22: a series without an alertname contributes no episode and does not
\* make parseAlerts fail: on a matrix the call returns no error, no episode
\* without a name, and episodes that a call on the matrix without its
\* nameless series returns too.
C22_NamelessSeriesIgnored ==
    (parsed.at = "returned" /\ queryResult.type = "matrix") =>
        /\ ~parsed.err
        /\ \A e \in DOMAIN ParsedEpisodes : e.Name = "HighCPU"
        /\ WithAlertname(queryResult.matrix) # queryResult.matrix =>
              ParsedEpisodes \in EpisodeBagsOf(WithAlertname(queryResult.matrix))

\* A returned call on a matrix with a nameless series that has samples,
\* next to a named series that produced an episode.
C22_Witness ==
    /\ parsed.at = "returned"
    /\ ~parsed.err
    /\ parsed.alerts # <<>>
    /\ \E s \in DOMAIN queryResult.matrix :
          /\ "alertname" \notin DOMAIN queryResult.matrix[s].Metric
          /\ queryResult.matrix[s].Values # <<>>

\* ----------------------------------------------------------------- C23
\* C23: CollectCurrentAlerts returns exactly one episode per entry of the
\* listing, in its order, with fired_at = activation time = the entry's
\* start time; the episode has a resolved_at, equal to the entry's end
\* time, exactly when that end time is set and earlier than the instant of
\* the call, and is otherwise open and in state firing.
C23_OneEpisodePerListedAlert ==
    (snapshot.at = "returned" /\ ~listing.err) =>
        LET h == snapshot.history
            at == h.StartTime
        IN  /\ ~snapshot.err
            /\ ~h.isNil
            /\ at <= now
            /\ Len(h.Alerts) = Len(listing.alerts)
            /\ \A i \in DOMAIN listing.alerts :
                  LET entry == listing.alerts[i]
                      e == h.Alerts[i]
                      past == entry.EndsAt # ZeroTime /\ entry.EndsAt < at
                  IN  /\ e.FiredAt = entry.StartsAt
                      /\ e.ActiveAt = entry.StartsAt
                      /\ (e.ResolvedAt # NilTime) <=> past
                      /\ past => e.ResolvedAt = entry.EndsAt
                      /\ ~past => e.State = "firing"

\* A returned call on a listing with an entry that ended before the call
\* and an entry whose end time is the instant of the call.
C23_Witness ==
    /\ snapshot.at = "returned"
    /\ ~snapshot.err
    /\ \E i, j \in DOMAIN listing.alerts :
          /\ listing.alerts[i].EndsAt # ZeroTime
          /\ listing.alerts[i].EndsAt < snapshot.history.StartTime
          /\ snapshot.history.Alerts[i].ResolvedAt = listing.alerts[i].EndsAt
          /\ listing.alerts[j].EndsAt = snapshot.history.StartTime
          /\ snapshot.history.Alerts[j].ResolvedAt = NilTime

\* ----------------------------------------------------------------- C24
\* The transitions of an identity, and the gaps between consecutive ones.
TransitionsOf(name) == DetectStateTransitions(GroupInFiredOrder(name))

GapsOf(name) ==
    [ k \in 1 .. Len(TransitionsOf(name)) - 1 |->
        TransitionsOf(name)[k + 1].Timestamp - TransitionsOf(name)[k].Timestamp ]

\* C24: for an identity with fewer than two transitions AvgStateDuration
\* is the mean duration of its episodes and ShortestDuration is 0; with two
\* or more transitions AvgStateDuration is the mean and ShortestDuration
\* the minimum of the gaps between consecutive transitions.
C24_StateDurationsClaim ==
    call.op = "FlappingAnalyzer.Analyze" =>
        \A i \in DOMAIN results :
            LET name == results[i].AlertName
                gaps == GapsOf(name)
            IN  IF Len(TransitionsOf(name)) < 2
                THEN /\ results[i].AvgStateDuration =
                            Quot(TotalDurationOf(name),
                                 Cardinality(EpisodesOf(name)))
                     /\ results[i].ShortestDuration = 0
                ELSE /\ results[i].AvgStateDuration =
                            Quot(SumSeq(gaps), Len(gaps))
                     /\ \E k \in DOMAIN gaps :
                            results[i].ShortestDuration = gaps[k]
                     /\ \A k \in DOMAIN gaps :
                            results[i].ShortestDuration <= gaps[k]

\* ----------------------------------------------------------------- C25
\* The episodes of an identity that carry a non-empty severity label.
WithSeverity(name) ==
    { i \in EpisodesOf(name) :
        Len(history.Alerts[i].Labels) > 0 /\ history.Alerts[i].Labels[1] # "" }

\* The first of them in input order.
FirstWithSeverity(name) ==
    CHOOSE i \in WithSeverity(name) : \A j \in WithSeverity(name) : i <= j

\* C25: the Severity of a FrequencyResult and of a FlappingResult is the
\* first non-empty severity label among the identity's episodes in input
\* order; an episode without the label does not decide the value while a
\* later episode of the identity has one.
C25_FirstSeverityClaim ==
    (call.op \in {"FrequencyAnalyzer.Analyze", "FlappingAnalyzer.Analyze"}
        /\ ~panicked) =>
        \A i \in DOMAIN results :
            WithSeverity(results[i].AlertName) # {} =>
                results[i].Severity =
                    history.Alerts[FirstWithSeverity(results[i].AlertName)].Labels[1]

WorkerStuck ==
    /\ feeder.at = "returned"
    /\ requestsCh.len = 0
    /\ ~requestsCh.closed
    /\ \E w \in Started : workers[w].at = "range"

\* C27: Pool.Run eventually returns in both modes, with a request limit
\* also when the timeout fires before every token has been handed out; no
\* worker stays blocked forever receiving from the request channel.
C27_RunEventuallyReturns == <>(run.at = "returned")

\* ----------------------------------------------------------------- C28
\* C28: the transitions derived for an identity are in non-decreasing
\* timestamp order, so that every gap between consecutive transitions, and
\* with them ShortestDuration and AvgStateDuration, is non-negative, also
\* when the identity's episodes overlap in time.
C28_TransitionsInTimeOrderClaim ==
    call.op = "FlappingAnalyzer.Analyze" =>
        \A i \in DOMAIN results :
            LET trans == TransitionsOf(results[i].AlertName)
            IN  /\ \A k \in 1 .. Len(trans) - 1 :
                      trans[k].Timestamp <= trans[k + 1].Timestamp
                /\ results[i].ShortestDuration >= 0
                /\ results[i].AvgStateDuration >= 0

\* ----------------------------------------------------------------- C29
\* C29: in the transition sequence derived for an identity the first
\* transition goes from inactive to firing, every transition's from-state
\* is the previous transition's to-state, the to-states alternate between
\* firing and resolved, and there are at most twice as many transitions
\* as the identity has episodes.
C29_TransitionSequenceShape ==
    call.op = "FlappingAnalyzer.Analyze" =>
        \A i \in DOMAIN results :
            LET trans == TransitionsOf(results[i].AlertName)
            IN  /\ results[i].TransitionCount = Len(trans)
                /\ Len(trans) <= 2 * Cardinality(EpisodesOf(results[i].AlertName))
                /\ Len(trans) > 0 =>
                      /\ trans[1].FromState = "inactive"
                      /\ trans[1].ToState = "firing"
                /\ \A k \in 2 .. Len(trans) :
                      /\ trans[k].FromState = trans[k - 1].ToState
                      /\ trans[k].ToState \in {"firing", "resolved"}
                      /\ trans[k].ToState # trans[k - 1].ToState

\* An Analyze result for an identity with at least three transitions.
C29_Witness ==
    /\ call.op = "FlappingAnalyzer.Analyze"
    /\ \E i \in DOMAIN results :
          /\ results[i].TransitionCount >= 3
          /\ Len(TransitionsOf(results[i].AlertName)) >= 3

\* ----------------------------------------------------------------- C30
\* C30: for every integer n, zero and negative values included,
\* AnalyzeTopN(n) of either analyzer returns without failing, with a list
\* of at most max(n, 0) entries.  Stated for analyzers built on a history
\* that is not nil, the nil history being the matter of C1.
C30_TopNAnyIntegerClaim ==
    (call.op \in {"FrequencyAnalyzer.AnalyzeTopN", "FlappingAnalyzer.AnalyzeTopN"}
        /\ ~history.isNil) =>
        /\ ~panicked
        /\ Len(results) <= (IF call.n > 0 THEN call.n ELSE 0)

====
